---- MODULE Spec2Model ----
(***************************************************************************)
(* Model of be/src/exec/text-converter.cc: TextConverter::UnescapeString   *)
(* (the scan loop, one step per iteration) and                             *)
(* TextConverter::CodegenWriteSlot together with the WriteSlot routine it  *)
(* emits (one step per basic block of the emitted IR).                     *)
(***************************************************************************)
EXTENDS Integers, Sequences, FiniteSets, TLC

\* ------------------------------------------------------------------------
\* Bounds
\* ------------------------------------------------------------------------
\* longest byte buffer handed to UnescapeString
MaxLen == 4
\* longest field length handed to the generated WriteSlot routine
MaxFieldLen == 4

\* ------------------------------------------------------------------------
\* Bytes.  0 is '\0', 92 is '\\', 97 is 'a'.
\* ------------------------------------------------------------------------
Bytes == {0, 92, 97}

\* values the constructor argument escape_char takes in the model
EscapeChars == {0, 92}

\* content of a destination cell that was never written
Uninit == -1

VARIABLES
  escape_char_,       \* TextConverter::escape_char_
  \* --- UnescapeString ---
  u_pc,               \* "idle" | "loop" | "done"
  value,              \* the StringValue: [ptr, len]; ptr names a buffer
  src_buf,            \* the bytes at the original value->ptr
  new_data,           \* the bytes of the pool allocation (dest)
  src,                \* read cursor, as an offset from the start of src_buf
  end,                \* src + *len, as an offset
  dest_ptr,           \* write cursor, as an offset from dest
  escape_next_char,   \* the flag of the scan loop
  iters,              \* number of loop iterations executed by this call
  copied,             \* per iteration: TRUE iff the byte read was copied
  oob,                \* TRUE iff a store went outside new_data
  \* --- CodegenWriteSlot and the emitted routine ---
  slot_desc,          \* the SlotDescriptor of the last generation request
  fn,                 \* result of CodegenWriteSlot: NoFn | NULL | a routine
  backend_calls,      \* requests CodegenWriteSlot made to its collaborators
  w_pc,               \* basic block the routine is at, or "idle"/"ret"
  args,               \* [data, len] of the running/last invocation
  tuple,              \* tuple memory: [layout, is_null, slot]
  result,             \* %1, the value returned by the parser call
  parse_result,       \* the alloca'd i32 parse_result
  ret,                \* value returned by the last invocation
  entry_tuple,        \* tuple memory when the invocation was entered
  n_parse,            \* parser calls made by this invocation
  n_set_null,         \* SetNull calls made by this invocation
  n_store,            \* store instructions executed by this invocation
  marked              \* TRUE iff an invocation marked this tuple memory null

uvars == <<u_pc, value, src_buf, new_data, src, end, dest_ptr,
           escape_next_char, iters, copied, oob>>
wvars == <<slot_desc, fn, backend_calls, w_pc, args, tuple, result,
           parse_result, ret, entry_tuple, n_parse, n_set_null, n_store,
           marked>>
vars == <<escape_char_, uvars, wvars>>

\* all byte sequences of length at most n
RECURSIVE SeqsUpTo(_, _)
SeqsUpTo(S, n) ==
  IF n = 0 THEN {<<>>}
  ELSE LET shorter == SeqsUpTo(S, n - 1)
       IN shorter \cup {Append(s, c) : s \in {t \in shorter : Len(t) = n - 1}, c \in S}

\* ========================================================================
\* TextConverter::UnescapeString
\* ========================================================================

\* while (src < end)
LoopCondOffByOne(s, e) == s <= e
LoopCond(s, e) == s < e

\* the byte *src reads; a read at or past end of the buffer is a read of
\* memory the buffer does not own and may produce any byte
ReadByte(buf, s) == IF s < Len(buf) THEN {buf[s + 1]} ELSE Bytes

\* if (*src == escape_char_) flag = !flag; else flag = false;
ToggleEscapeNoReset(c, flag) == ~flag
ToggleEscape(c, flag) == IF c = escape_char_ THEN ~flag ELSE FALSE

\* *len = dest_ptr - dest_start
NewLenStale(dptr, oldlen) == oldlen
NewLen(dptr, oldlen) == dptr

\* UnescapeString(StringValue*, MemPool*): allocate value->len bytes and
\* enter the scan loop of UnescapeString(src, dest, &len)
UnescapeStringValue ==
  /\ u_pc \in {"idle", "done"}
  /\ \E s \in SeqsUpTo(Bytes, MaxLen) :
       /\ src_buf' = s
       /\ value' = [ptr |-> "src", len |-> Len(s)]
       /\ new_data' = [i \in 1..Len(s) |-> Uninit]
       /\ end' = Len(s)
  /\ src' = 0
  /\ dest_ptr' = 0
  /\ escape_next_char' = FALSE
  /\ iters' = 0
  /\ copied' = <<>>
  /\ oob' = FALSE
  /\ u_pc' = "loop"
  /\ UNCHANGED <<escape_char_, wvars>>

\* one iteration of the while loop
UnescapeLoop ==
  /\ u_pc = "loop"
  /\ LoopCond(src, end)
  /\ \E c \in ReadByte(src_buf, src) :
       LET flag == ToggleEscape(c, escape_next_char) IN
       /\ escape_next_char' = flag
       /\ IF flag
          THEN /\ src' = src + 1
               /\ UNCHANGED <<new_data, dest_ptr, oob>>
          ELSE /\ new_data' = IF dest_ptr < Len(new_data)
                              THEN [new_data EXCEPT ![dest_ptr + 1] = c]
                              ELSE new_data
               /\ oob' = (oob \/ dest_ptr >= Len(new_data))
               /\ dest_ptr' = dest_ptr + 1
               /\ src' = src + 1
       /\ copied' = Append(copied, ~flag)
  /\ iters' = iters + 1
  /\ UNCHANGED <<escape_char_, u_pc, value, src_buf, end, wvars>>

\* loop exit: *len = dest_ptr - dest_start; value->ptr = new_data
UnescapeReturn ==
  /\ u_pc = "loop"
  /\ ~LoopCond(src, end)
  /\ value' = [ptr |-> "new_data", len |-> NewLen(dest_ptr, value.len)]
  /\ u_pc' = "done"
  /\ UNCHANGED <<escape_char_, src_buf, new_data, src, end, dest_ptr,
                 escape_next_char, iters, copied, oob, wvars>>


\* ========================================================================
\* Collaborators of the generated routine
\* ========================================================================

\* the scan buffer the field pointers point into; address a (1-based) holds
\* ScanBuffer[a]
ScanBuffer == <<"-", "3", "1", "2", "3", "x", "t", "r", "u", "e", ".", "5">>

\* the null pointer, and an address one past the scan buffer
NullPtr == 0
PastEnd == Len(ScanBuffer) + 1

\* the len bytes at data
FieldText(data, len) == SubSeq(ScanBuffer, data, data + len - 1)

\* StringParser::ParseResult
PARSE_SUCCESS == 0
PARSE_FAILURE == 1
PARSE_OVERFLOW == 2

Digits == {"0", "1", "2", "3", "4", "5", "6", "7", "8", "9"}
DigitVal(c) ==
  CASE c = "0" -> 0 [] c = "1" -> 1 [] c = "2" -> 2 [] c = "3" -> 3
    [] c = "4" -> 4 [] c = "5" -> 5 [] c = "6" -> 6 [] c = "7" -> 7
    [] c = "8" -> 8 [] c = "9" -> 9

RECURSIVE DecimalValue(_)
DecimalValue(t) ==
  IF t = <<>> THEN 0
  ELSE 10 * DecimalValue(SubSeq(t, 1, Len(t) - 1)) + DigitVal(t[Len(t)])

AllDigits(t) == t # <<>> /\ \A i \in 1..Len(t) : t[i] \in Digits

\* range of a signed integer of the given width.  Fields of the bounded
\* length hold at most a few digits, so only the 8 and 16 bit ranges can be
\* left; the wider ranges are not computed.
FitsWidth(v, bits) ==
  bits >= 32 \/ (v <= 2 ^ (bits - 1) - 1 /\ v >= -(2 ^ (bits - 1)))
ClampWidth(v, bits) ==
  IF FitsWidth(v, bits) THEN v
  ELSE IF v > 0 THEN 2 ^ (bits - 1) - 1 ELSE -(2 ^ (bits - 1))

\* StringParser::StringToInt<T> for a T of the given width: an optional
\* sign and decimal digits; a value outside T is clamped and reported as
\* PARSE_OVERFLOW
StringToInt(t, bits) ==
  LET neg == t # <<>> /\ t[1] = "-"
      body == IF neg THEN Tail(t) ELSE t
  IN IF ~AllDigits(body) THEN [val |-> 0, parse_result |-> PARSE_FAILURE]
     ELSE LET v == IF neg THEN -DecimalValue(body) ELSE DecimalValue(body)
          IN [val |-> ClampWidth(v, bits),
              parse_result |-> IF FitsWidth(v, bits) THEN PARSE_SUCCESS
                               ELSE PARSE_OVERFLOW]

\* StringParser::StringToBool
StringToBool(t) ==
  IF t = <<"t", "r", "u", "e">> THEN [val |-> 1, parse_result |-> PARSE_SUCCESS]
  ELSE IF t = <<"f", "a", "l", "s", "e">>
       THEN [val |-> 0, parse_result |-> PARSE_SUCCESS]
       ELSE [val |-> 0, parse_result |-> PARSE_FAILURE]

\* StringParser::StringToFloat<T>: an optional sign, digits and at most one
\* decimal point.  The value is kept as a count of thousandths.
StringToFloat(t) ==
  LET neg == t # <<>> /\ t[1] = "-"
      body == IF neg THEN Tail(t) ELSE t
      dots == {i \in 1..Len(body) : body[i] = "."}
      dot == IF dots = {} THEN Len(body) + 1 ELSE CHOOSE i \in dots : TRUE
      whole == SubSeq(body, 1, dot - 1)
      frac == SubSeq(body, dot + 1, Len(body))
      ok == /\ Cardinality(dots) <= 1
            /\ \A i \in 1..Len(body) : body[i] \in Digits \cup {"."}
            /\ Len(whole) + Len(frac) > 0
            /\ Len(frac) <= 3
      mag == DecimalValue(whole) * 1000 + DecimalValue(frac) * 10 ^ (3 - Len(frac))
  IN IF ~ok THEN [val |-> 0, parse_result |-> PARSE_FAILURE]
     ELSE [val |-> IF neg THEN -mag ELSE mag, parse_result |-> PARSE_SUCCESS]

\* the function SlotDescriptor::CodegenUpdateNull(codegen, tuple_type, true)
\* produces: sets the slot's null indicator
SetNull(t) == [t EXCEPT !.is_null = TRUE]

\* ========================================================================
\* TextConverter::CodegenWriteSlot
\* ========================================================================
\* values of the Function* CodegenWriteSlot returns: no request made yet, the
\* null pointer, and the abort of a failed DCHECK in a debug build
NoFn == [kind |-> "none"]
NULL == [kind |-> "NULL"]
DCheckFailed == [kind |-> "DCHECK"]

ParsedTypes == {"TYPE_BOOLEAN", "TYPE_TINYINT", "TYPE_SMALLINT", "TYPE_INT",
                "TYPE_BIGINT", "TYPE_FLOAT", "TYPE_DOUBLE"}
\* slot types a SlotDescriptor may carry; TYPE_TIMESTAMP stands for the types
\* the switch has no case for
SlotTypes == ParsedTypes \cup {"TYPE_STRING", "TYPE_TIMESTAMP"}

\* switch (slot_desc->type()) : the IRFunction selected for the slot type
ParseFnEnum(type) ==
  CASE type = "TYPE_BOOLEAN" -> "STRING_TO_BOOL"
    [] type = "TYPE_TINYINT" -> "STRING_TO_INT8"
    [] type = "TYPE_SMALLINT" -> "STRING_TO_INT16"
    [] type = "TYPE_INT" -> "STRING_TO_INT32"
    [] type = "TYPE_BIGINT" -> "STRING_TO_INT64"
    [] type = "TYPE_FLOAT" -> "STRING_TO_FLOAT"
    [] type = "TYPE_DOUBLE" -> "STRING_TO_DOUBLE"

\* codegen->GetFunction(parse_fn_enum) applied to the field text
CallParseFn(parse_fn, t) ==
  CASE parse_fn = "STRING_TO_BOOL" -> StringToBool(t)
    [] parse_fn = "STRING_TO_INT8" -> StringToInt(t, 8)
    [] parse_fn = "STRING_TO_INT16" -> StringToInt(t, 16)
    [] parse_fn = "STRING_TO_INT32" -> StringToInt(t, 32)
    [] parse_fn = "STRING_TO_INT64" -> StringToInt(t, 64)
    [] parse_fn = "STRING_TO_FLOAT" -> StringToFloat(t)
    [] parse_fn = "STRING_TO_DOUBLE" -> StringToFloat(t)

\* if (slot_desc->type() == TYPE_STRING && escape_char_ != '\0') return NULL
EscapeUnsupportedUnchecked(type) == FALSE
EscapeUnsupported(type) == type = "TYPE_STRING" /\ escape_char_ # 0

\* the routine CodegenWriteSlot emits for a slot type
Routine(type) ==
  [kind |-> "WriteSlot",
   type |-> type,
   parse_fn |-> IF type = "TYPE_STRING" THEN "none" ELSE ParseFnEnum(type),
   failed_value |-> PARSE_FAILURE]

\* CodegenWriteSlot as a function of the slot type and of what its
\* collaborators answer: the function returned and the requests made
WriteSlotCodegen(type, struct_ok, set_null_ok, ndebug, finalize_ok) ==
  IF EscapeUnsupported(type) THEN [fn |-> NULL, calls |-> <<>>]
  ELSE IF ~struct_ok THEN [fn |-> NULL, calls |-> <<"GenerateLlvmStruct">>]
  ELSE IF ~set_null_ok
    THEN [fn |-> NULL, calls |-> <<"GenerateLlvmStruct", "CodegenUpdateNull">>]
  ELSE IF type \notin ParsedTypes \cup {"TYPE_STRING"}
    THEN [fn |-> IF ndebug THEN NULL ELSE DCheckFailed,
          calls |-> <<"GenerateLlvmStruct", "CodegenUpdateNull",
                      "GeneratePrototype">>]
  ELSE [fn |-> IF finalize_ok THEN Routine(type) ELSE NULL,
        calls |-> <<"GenerateLlvmStruct", "CodegenUpdateNull",
                    "GeneratePrototype", "FinalizeFunction">>]


\* ------------------------------------------------------------------------
\* The emitted IR, block by block
\* ------------------------------------------------------------------------

\* %0 = icmp eq i32 %len, 0
LenZeroNever(len) == FALSE
LenZero(len) == len = 0

\* %failed = icmp eq i32 %parse_result1, PARSE_FAILURE
ParseFailedWrongCode(pr) == pr = PARSE_OVERFLOW
ParseFailed(pr) == pr = PARSE_FAILURE

\* store of a value through the slot GEP: field slot_desc->field_idx() of
\* the tuple struct
StoreSlotOverNull(t, v) == [t EXCEPT !.slot = v, !.is_null = FALSE]
StoreSlot(t, v) == [t EXCEPT !.slot = v]

\* the two stores of the string path: args[1] to string_ptr, args[2] to
\* string_len
StringSlotSwapped(data, len) == [ptr |-> len, len |-> data]
StringSlot(data, len) == [ptr |-> data, len |-> len]

\* the value parse_success stores: %1, the value the parser returned
StoredValueStatus(res, pr) == pr
StoredValue(res, pr) == res

\* content of a register or stack slot of the routine before it is assigned
Undef == "undef"

\* a slot of a zeroed tuple
ZeroSlot(type) == IF type = "TYPE_STRING" THEN [ptr |-> NullPtr, len |-> 0] ELSE 0

\* tuple memory the scan loop may hand to the routine for a new row
FreshTuples(type) ==
  {[layout |-> type, is_null |-> b, slot |-> ZeroSlot(type)] : b \in BOOLEAN}

\* (data, len) views the scan loop may hand to the routine
FieldArgs ==
  {[data |-> d, len |-> 0] : d \in {NullPtr, PastEnd} \cup (1..Len(ScanBuffer))}
  \cup {[data |-> d, len |-> l] : d \in 1..Len(ScanBuffer), l \in 1..MaxFieldLen}

IsRoutine(f) == f.kind = "WriteSlot"

\* CodegenWriteSlot(codegen, tuple_desc, slot_desc), called once for the slot
CodegenWriteSlot ==
  /\ w_pc = "idle"
  /\ fn = NoFn
  /\ \E type \in SlotTypes, struct_ok, set_null_ok, ndebug, finalize_ok \in BOOLEAN :
       LET g == WriteSlotCodegen(type, struct_ok, set_null_ok, ndebug, finalize_ok)
       IN /\ slot_desc' = [type |-> type]
          /\ fn' = g.fn
          /\ backend_calls' = g.calls
  /\ w_pc' = "idle"
  /\ UNCHANGED <<escape_char_, uvars, args, tuple, result, parse_result, ret,
                 entry_tuple, n_parse, n_set_null, n_store, marked>>

\* entry: the scan loop calls WriteSlot(tuple_arg, data, len), on the tuple
\* memory of the previous call or on another tuple
WriteSlotEntry ==
  /\ w_pc \in {"idle", "ret"}
  /\ IsRoutine(fn)
  /\ \E a \in FieldArgs :
       /\ a.len > 0 => a.data + a.len - 1 <= Len(ScanBuffer)
       /\ args' = a
       /\ w_pc' = IF LenZero(a.len) THEN "set_null" ELSE "parse_slot"
  /\ \/ /\ tuple.layout = fn.type
        /\ UNCHANGED <<tuple, marked>>
     \/ /\ tuple' \in FreshTuples(fn.type)
        /\ marked' = FALSE
  /\ entry_tuple' = tuple'
  /\ n_parse' = 0
  /\ n_set_null' = 0
  /\ n_store' = 0
  /\ result' = Undef
  /\ parse_result' = Undef
  /\ ret' = Undef
  /\ UNCHANGED <<escape_char_, uvars, slot_desc, fn, backend_calls>>

\* set_null: call void @SetNull(%tuple_arg); ret i1 true
SetNullBlock ==
  /\ w_pc = "set_null"
  /\ tuple' = SetNull(tuple)
  /\ n_set_null' = n_set_null + 1
  /\ marked' = TRUE
  /\ ret' = TRUE
  /\ w_pc' = "ret"
  /\ UNCHANGED <<escape_char_, uvars, slot_desc, fn, backend_calls, args,
                 result, parse_result, entry_tuple, n_parse, n_store>>

\* parse_slot of a string slot: store data and len; ret i1 true
ParseSlotString ==
  /\ w_pc = "parse_slot"
  /\ fn.type = "TYPE_STRING"
  /\ tuple' = StoreSlot(tuple, StringSlot(args.data, args.len))
  /\ n_store' = n_store + 2
  /\ ret' = TRUE
  /\ w_pc' = "ret"
  /\ UNCHANGED <<escape_char_, uvars, slot_desc, fn, backend_calls, args,
                 result, parse_result, entry_tuple, n_parse, n_set_null,
                 marked>>

\* parse_slot of a parsed slot: call the StringTo* function, load
\* parse_result and branch on it
ParseSlotCall ==
  /\ w_pc = "parse_slot"
  /\ fn.type # "TYPE_STRING"
  /\ LET r == CallParseFn(fn.parse_fn, FieldText(args.data, args.len))
     IN /\ result' = r.val
        /\ parse_result' = r.parse_result
        /\ w_pc' = IF ParseFailed(r.parse_result) THEN "parse_fail"
                   ELSE "parse_success"
  /\ n_parse' = n_parse + 1
  /\ UNCHANGED <<escape_char_, uvars, slot_desc, fn, backend_calls, args,
                 tuple, ret, entry_tuple, n_set_null, n_store, marked>>

\* parse_success: store %1 to the slot; ret i1 true
ParseSuccessBlock ==
  /\ w_pc = "parse_success"
  /\ tuple' = StoreSlot(tuple, StoredValue(result, parse_result))
  /\ n_store' = n_store + 1
  /\ ret' = TRUE
  /\ w_pc' = "ret"
  /\ UNCHANGED <<escape_char_, uvars, slot_desc, fn, backend_calls, args,
                 result, parse_result, entry_tuple, n_parse, n_set_null,
                 marked>>

\* parse_fail: call void @SetNull(%tuple_arg); ret i1 false
ParseFailBlock ==
  /\ w_pc = "parse_fail"
  /\ tuple' = SetNull(tuple)
  /\ n_set_null' = n_set_null + 1
  /\ marked' = TRUE
  /\ ret' = FALSE
  /\ w_pc' = "ret"
  /\ UNCHANGED <<escape_char_, uvars, slot_desc, fn, backend_calls, args,
                 result, parse_result, entry_tuple, n_parse, n_store>>

\* ========================================================================
\* Specifications
\* ========================================================================
NoTuple == [layout |-> "none", is_null |-> FALSE, slot |-> 0]

\* TextConverter::TextConverter(char escape_char)
Init ==
  /\ escape_char_ \in EscapeChars
  /\ u_pc = "idle"
  /\ value = [ptr |-> "src", len |-> 0]
  /\ src_buf = <<>>
  /\ new_data = <<>>
  /\ src = 0
  /\ end = 0
  /\ dest_ptr = 0
  /\ escape_next_char = FALSE
  /\ iters = 0
  /\ copied = <<>>
  /\ oob = FALSE
  /\ slot_desc = [type |-> "none"]
  /\ fn = NoFn
  /\ backend_calls = <<>>
  /\ w_pc = "idle"
  /\ args = [data |-> NullPtr, len |-> 0]
  /\ tuple = NoTuple
  /\ result = Undef
  /\ parse_result = Undef
  /\ ret = Undef
  /\ entry_tuple = NoTuple
  /\ n_parse = 0
  /\ n_set_null = 0
  /\ n_store = 0
  /\ marked = FALSE

NextUnescape == UnescapeStringValue \/ UnescapeLoop \/ UnescapeReturn

NextWriteSlot ==
  \/ CodegenWriteSlot
  \/ WriteSlotEntry
  \/ SetNullBlock
  \/ ParseSlotString
  \/ ParseSlotCall
  \/ ParseSuccessBlock
  \/ ParseFailBlock

Next == NextUnescape \/ NextWriteSlot

SpecUnescape == Init /\ [][NextUnescape]_vars
SpecWriteSlot == Init /\ [][NextWriteSlot]_vars
Spec == Init /\ [][Next]_vars


\* ========================================================================
\* Properties of UnescapeString (checked under SpecUnescape)
\* ========================================================================

\* number of bytes the first k iterations copied to dest
OutIndex(k) == Cardinality({j \in 1..k : copied[j]})

NoEscapeByte(buf) == \A i \in 1..Len(buf) : buf[i] # escape_char_

\* C6: when the input holds no byte equal to the escape byte, the call
\* leaves in dest exactly the input bytes, in order, and the length is
\* the input length.
C6_IdentityWithoutEscape ==
  (u_pc = "done" /\ NoEscapeByte(src_buf))
    => /\ new_data = src_buf
       /\ value.len = Len(src_buf)
       /\ value.ptr = "new_data"

C6_Witness ==
  /\ u_pc = "done"
  /\ escape_char_ = 92
  /\ src_buf = <<97, 0, 97>>
  /\ new_data = <<97, 0, 97>>

\* an escape byte at position i that starts a pair: position i + 1 holds an
\* escape byte too, and i is the first byte or follows a non-escape byte
StartsPair(i) ==
  /\ i + 1 <= Len(src_buf)
  /\ src_buf[i] = escape_char_
  /\ src_buf[i + 1] = escape_char_
  /\ (i = 1 \/ src_buf[i - 1] # escape_char_)

\* C7: of two consecutive escape bytes at the start of the buffer or right
\* after a non-escape byte, the first is skipped and the second is copied,
\* so the pair adds exactly one byte, an escape byte, to the output.
C7_PairCollapses ==
  \A i \in 1..Len(src_buf) :
    (StartsPair(i) /\ iters >= i + 1)
      => /\ ~copied[i]
         /\ copied[i + 1]
         /\ OutIndex(i + 1) = OutIndex(i - 1) + 1
         /\ new_data[OutIndex(i + 1)] = escape_char_

C7_Witness ==
  /\ u_pc = "done"
  /\ escape_char_ = 92
  /\ src_buf = <<97, 92, 92, 97>>
  /\ new_data[1] = 97 /\ new_data[2] = 92 /\ new_data[3] = 97
  /\ value.len = 3

\* the buffer ends in an escape byte that is the first byte or follows a
\* non-escape byte
LoneTrailingEscape ==
  /\ Len(src_buf) >= 1
  /\ src_buf[Len(src_buf)] = escape_char_
  /\ (Len(src_buf) = 1 \/ src_buf[Len(src_buf) - 1] # escape_char_)

\* C8: a lone escape byte that ends the input is not copied: the call
\* completes with the length the bytes before it produced.
C8_TrailingEscapeDropped ==
  (u_pc = "done" /\ LoneTrailingEscape)
    => /\ ~copied[Len(src_buf)]
       /\ value.len = OutIndex(Len(src_buf) - 1)
       /\ value.len < Len(src_buf)
       /\ ~oob

C8_Witness ==
  /\ u_pc = "done"
  /\ escape_char_ = 92
  /\ src_buf = <<97, 92>>
  /\ new_data[1] = 97
  /\ value.len = 1

\* C9: at every point of the scan the bytes written are at most the bytes
\* read, no store leaves the len bytes of dest, and the call ends after
\* exactly len iterations with 0 <= newLen <= len.
C9_WritesBoundedByReads ==
  /\ dest_ptr <= src
  /\ src = iters
  /\ iters <= Len(src_buf)
  /\ ~oob
  /\ u_pc = "done" => /\ iters = Len(src_buf)
                      /\ 0 <= value.len
                      /\ value.len <= Len(src_buf)

C9_Witness ==
  /\ u_pc = "done"
  /\ Len(src_buf) = MaxLen
  /\ iters = MaxLen
  /\ value.len = MaxLen
  /\ dest_ptr = MaxLen

\* ========================================================================
\* Properties of CodegenWriteSlot and the routine (checked under
\* SpecWriteSlot)
\* ========================================================================

Returned == w_pc = "ret"

\* C1: when the parser reports PARSE_FAILURE for a non-empty field of a
\* numeric or boolean slot, the routine calls SetNull, stores nothing into
\* the slot and returns false.
C1_ParseFailureNulls ==
  (/\ Returned
   /\ fn.type \in ParsedTypes
   /\ args.len > 0
   /\ n_parse = 1
   /\ parse_result = PARSE_FAILURE)
    => /\ n_set_null = 1
       /\ tuple.is_null
       /\ n_store = 0
       /\ tuple.slot = entry_tuple.slot
       /\ ret = FALSE

C1_Witness ==
  /\ Returned
  /\ fn.type = "TYPE_INT"
  /\ FieldText(args.data, args.len) = <<"2", "3", "x">>
  /\ parse_result = PARSE_FAILURE
  /\ ~entry_tuple.is_null
  /\ tuple.is_null
  /\ ret = FALSE

\* C2: a routine exists only for boolean, integer, float, double and string
\* slots, and for a field of length 0 it calls SetNull once and returns
\* true without calling the parser or storing into the slot, whatever the
\* field pointer is.
C2_EmptyFieldNulls ==
  /\ IsRoutine(fn) => fn.type \in ParsedTypes \cup {"TYPE_STRING"}
  /\ (Returned /\ args.len = 0)
       => /\ n_set_null = 1
          /\ tuple.is_null
          /\ ret = TRUE
          /\ n_parse = 0
          /\ n_store = 0
          /\ tuple.slot = entry_tuple.slot

C2_Witness ==
  /\ Returned
  /\ fn.type = "TYPE_STRING"
  /\ args = [data |-> NullPtr, len |-> 0]
  /\ ~entry_tuple.is_null
  /\ tuple.is_null
  /\ ret = TRUE

\* C3: when the parser reports PARSE_SUCCESS for a non-empty field of a
\* numeric or boolean slot, the routine has called the parser once, the
\* slot holds the value the parser returned and the routine returns true.
C3_ParseSuccessStores ==
  (/\ Returned
   /\ fn.type \in ParsedTypes
   /\ args.len > 0
   /\ n_parse >= 1
   /\ parse_result = PARSE_SUCCESS)
    => /\ n_parse = 1
       /\ result = CallParseFn(fn.parse_fn, FieldText(args.data, args.len)).val
       /\ tuple.slot = result
       /\ n_store = 1
       /\ n_set_null = 0
       /\ ret = TRUE

C3_Witness ==
  /\ Returned
  /\ fn.type = "TYPE_INT"
  /\ FieldText(args.data, args.len) = <<"1", "2", "3">>
  /\ parse_result = PARSE_SUCCESS
  /\ tuple.slot = 123
  /\ ret = TRUE

\* C4: with no escape byte configured, the routine of a string slot stores
\* the pointer and the length of a non-empty field unchanged into the slot
\* and returns true, calling neither a parser nor SetNull.
C4_StringStoredUnchanged ==
  (/\ Returned
   /\ fn.type = "TYPE_STRING"
   /\ escape_char_ = 0
   /\ args.len > 0)
    => /\ tuple.slot = [ptr |-> args.data, len |-> args.len]
       /\ ret = TRUE
       /\ n_parse = 0
       /\ n_set_null = 0
       /\ tuple.is_null = entry_tuple.is_null

C4_Witness ==
  /\ Returned
  /\ fn.type = "TYPE_STRING"
  /\ escape_char_ = 0
  /\ args = [data |-> 7, len |-> 4]
  /\ tuple.slot = [ptr |-> 7, len |-> 4]
  /\ ret = TRUE

\* C5: for a string slot with an escape byte other than '\0' configured,
\* CodegenWriteSlot returns NULL and has made no request for the tuple
\* struct, the null-marking function or a prototype.
C5_EscapedStringRefused ==
  (slot_desc.type = "TYPE_STRING" /\ escape_char_ # 0)
    => /\ fn = NULL
       /\ backend_calls = <<>>

C5_Witness ==
  /\ slot_desc.type = "TYPE_STRING"
  /\ escape_char_ = 92
  /\ fn = NULL
  /\ backend_calls = <<>>

\* C10: the routine never clears the null indicator: an invocation that
\* stores a value leaves the indicator as it found it, so tuple memory that
\* an earlier invocation marked null is still marked null after later
\* invocations, including those that store a value and return true.
C10_NullNeverCleared ==
  /\ marked => tuple.is_null
  /\ entry_tuple.is_null => tuple.is_null
  /\ (Returned /\ n_store > 0) => tuple.is_null = entry_tuple.is_null

C10_Witness ==
  /\ Returned
  /\ marked
  /\ n_set_null = 0
  /\ n_store > 0
  /\ ret = TRUE
  /\ tuple.is_null

====
